---------------------------- MODULE Spec2Model ----------------------------
(***************************************************************************)
(* A model of the two training engines of the repository:                  *)
(*   HW03Q01.py  semi-gradient TD(0) on Baird's counterexample              *)
(*   HW03Q02.py  REINFORCE / actor-critic runs against a gym environment    *)
(*                                                                         *)
(* Real numbers are exact rationals: a weight snapshot is a vector of       *)
(* integer numerators over one common denominator, kept in lowest terms,    *)
(* so two snapshots are equal as records iff they are equal as vectors of   *)
(* rationals.                                                               *)
(***************************************************************************)
EXTENDS Integers, Sequences, FiniteSets, TLC

(***************************************************************************)
(* Program constants of HW03Q01.py                                         *)
(***************************************************************************)
\* seed_count = 16
SEED0 == 16
\* alpha = 0.01 in main()
AlphaNum == 1
AlphaDen == 100
\* gamma = 0.99, the constructor's default
GammaNum == 99
GammaDen == 100
\* np.random.choice(7): the seven states 0..6
NStates == 7
\* the 8 weights
NWeights == 8

(***************************************************************************)
(* Bounds of the Baird model                                               *)
(***************************************************************************)
\* nb_runs * args.steps of one agent is at most MaxWork
MaxWork == 2
\* number of agents constructed and trained in one process
MaxCalls == 2
\* a step is taken only from a snapshot whose denominator is at most MaxDen
\* (keeps every intermediate product inside TLC's 32-bit integers)
MaxDen == 10000

None == "None"

\* no study has completed yet
NoStudy == [nb_runs |-> 0, s0s |-> << >>, ws |-> << >>]

States == 0 .. (NStates - 1)
Coords == 1 .. NWeights

VARIABLES
    seed_count,     \* HW03Q01 global seed_count
    rng_seed,       \* the value last given to np.random.seed
    seeds,          \* the seeds given to np.random.seed, in launch order
    args_steps,     \* args.steps
    nb_runs,        \* self.nb_runs
    ws,             \* self.ws: ws[run_id + 1][step + 1] is a snapshot
    current_state,  \* self.current_state
    new_state,      \* local new_state of the last semi_gradient_one_step
    run_id,         \* loop variable of train_all_runs
    step,           \* loop variable of semi_gradient_one_run
    bpc,            \* position of the Baird program
    calls,          \* number of agents constructed so far
    \* ---- HW03Q02.py ----
    args_gamma,     \* args.gamma, a rational <<numerator, denominator>>
    dr_rewards,     \* argument of the call of discount_rewards
    dr_returns,     \* what that call returned
    dr_pc,          \* position of that call
    agent,          \* 'rf' or 'ac'
    sizes,          \* args.hidden_size
    alphas,         \* args.alphas, in units of 0.0001
    args_runs,      \* args.runs
    args_episodes,  \* args.episodes
    args_max_steps, \* args.max_steps
    size_idx,       \* loop variables of runs()
    alpha_idx,
    run,
    steps_tensor,   \* the array steps of runs(), one cell per run
    scores,         \* one_run: scores
    episode,        \* one_run: loop variable
    steps,          \* one_run: steps of the current episode
    done,           \* one_run: done
    actions,        \* model.actions
    rewards,        \* model.rewards
    opt_steps,      \* calls of model.optimizer.step()
    env_resets,     \* calls of env.reset() in the whole process
    ppc,            \* position of the policy-gradient program
    ld_abs,         \* load: the file name given to main is an absolute path
    ld_exists,      \* load: the paths that hold a file (see LoadPaths)
    ld_path,        \* load: filename of the innermost call of load
    ld_depth,       \* load: number of calls of load that are on the stack
    ld_tries,       \* load: calls of open() made so far
    ld_pc,          \* load: position of the innermost call
    \* ---- the generator behind np.random ----
    rng_pos,        \* draws made since the last np.random.seed
    rng_stream,     \* rng_stream[<<seed, pos>>]: the draws observed so far
    s0s,            \* the initial state of each launched run of the agent
    prev            \* the result of the previous study

rerunVars == <<rng_pos, rng_stream, s0s, prev>>

bairdVars == <<seed_count, rng_seed, seeds, args_steps, nb_runs, ws,
               current_state, new_state, run_id, step, bpc, calls, rerunVars>>

drVars == <<dr_rewards, dr_returns, dr_pc>>

pgVars == <<agent, sizes, alphas, args_runs, args_episodes, args_max_steps,
            size_idx, alpha_idx, run, steps_tensor, scores, episode, steps,
            done, actions, rewards, opt_steps, env_resets, ppc>>

loadVars == <<ld_abs, ld_exists, ld_path, ld_depth, ld_tries, ld_pc>>

q2Vars == <<args_gamma, drVars, pgVars, loadVars>>

vars == <<bairdVars, q2Vars>>

(***************************************************************************)
(* Rational helpers                                                        *)
(***************************************************************************)
Abs(x) == IF x < 0 THEN -x ELSE x

RECURSIVE GCD(_, _)
GCD(a, b) == IF b = 0 THEN Abs(a) ELSE GCD(b, a % Abs(b))

RECURSIVE VecGCD(_, _, _)
VecGCD(v, i, g) == IF i > Len(v) THEN g ELSE VecGCD(v, i + 1, GCD(g, v[i]))

\* a vector of numerators over den, in lowest terms
Normalize(num, den) ==
    LET g == VecGCD(num, 1, den)
    IN  [num |-> [i \in DOMAIN num |-> num[i] \div g], den |-> den \div g]

(***************************************************************************)
(* TD_Zero_Agent_Baird_Counterexample                                      *)
(***************************************************************************)
\* np.array([1,1,1,1,1,1,10,1])
InitialW == [num |-> <<1, 1, 1, 1, 1, 1, 10, 1>>, den |-> 1]

\* self.features, a 7 x 8 table filled entry by entry in __init__
features ==
    [s \in States |->
        [i \in Coords |->
            IF s = 0 /\ i = 1 THEN 2
            ELSE IF s = 0 /\ i = 8 THEN 1
            ELSE IF s = 1 /\ i = 2 THEN 2
            ELSE IF s = 1 /\ i = 8 THEN 1
            ELSE IF s = 2 /\ i = 3 THEN 2
            ELSE IF s = 2 /\ i = 8 THEN 1
            ELSE IF s = 3 /\ i = 4 THEN 2
            ELSE IF s = 3 /\ i = 8 THEN 1
            ELSE IF s = 4 /\ i = 5 THEN 2
            ELSE IF s = 4 /\ i = 8 THEN 1
            ELSE IF s = 5 /\ i = 6 THEN 2
            ELSE IF s = 5 /\ i = 8 THEN 1
            ELSE IF s = 6 /\ i = 7 THEN 1
            ELSE IF s = 6 /\ i = 8 THEN 2
            ELSE 0]]

\* np.sum(self.features[s] * w), on the numerators of w
RECURSIVE DotFrom(_, _, _)
DotFrom(f, v, i) == IF i > NWeights THEN 0 ELSE f[i] * v[i] + DotFrom(f, v, i + 1)

Dot(f, v) == DotFrom(f, v, 1)

\* ratio = (7*(new_state==6))
RatioAlways(s2) == 7

Ratio(s2) == 7 * (IF s2 = 6 THEN 1 ELSE 0)

\* delta = gamma * F[new].w - F[old].w, as a numerator over GammaDen * w.den
DeltaNumReward(w, old, new) ==
    GammaDen * w.den + GammaNum * Dot(features[new], w.num)
        - GammaDen * Dot(features[old], w.num)

DeltaNum(w, old, new) ==
    GammaNum * Dot(features[new], w.num) - GammaDen * Dot(features[old], w.num)

\* self.ws[run_id, step-1] + self.alpha * ratio * delta * self.features[old_state]
StepSnapshot(w, old, new) ==
    Normalize(
        [i \in Coords |->
            w.num[i] * (AlphaDen * GammaDen)
                + AlphaNum * Ratio(new) * DeltaNum(w, old, new) * features[old][i]],
        w.den * (AlphaDen * GammaDen))

\* seed_count += 1
NextSeedCountStale(c) == c

NextSeedCount(c) == c + 1

\* np.zeros((nb_runs, steps+1, 8)), then every row of every run set to the
\* initial weights (the assignment ws[run] = array broadcasts over the rows)
InitialWs(n, st) == [r \in 1 .. n |-> [k \in 1 .. (st + 1) |-> InitialW]]

InitBaird ==
    /\ seed_count = SEED0
    /\ rng_seed = None
    /\ seeds = << >>
    /\ args_steps \in 0 .. MaxWork
    /\ nb_runs = 0
    /\ ws = << >>
    /\ current_state = None
    /\ new_state = None
    /\ run_id = 0
    /\ step = 0
    /\ bpc = "start"
    /\ calls = 0
    /\ rng_pos = 0
    /\ rng_stream = << >>
    /\ s0s = << >>
    /\ prev = NoStudy
    \* HW03Q02 is not running
    /\ ld_abs = FALSE
    /\ ld_exists = {}
    /\ ld_path = 0
    /\ ld_depth = 0
    /\ ld_tries = 0
    /\ ld_pc = "rest"
    /\ args_gamma = <<9, 10>>
    /\ dr_rewards = << >>
    /\ dr_returns = None
    /\ dr_pc = "rest"
    /\ agent = "rf"
    /\ sizes = << >>
    /\ alphas = << >>
    /\ args_runs = 0
    /\ args_episodes = 0
    /\ args_max_steps = 0
    /\ size_idx = 0
    /\ alpha_idx = 0
    /\ run = 0
    /\ steps_tensor = << >>
    /\ scores = << >>
    /\ episode = 0
    /\ steps = 0
    /\ done = FALSE
    /\ actions = << >>
    /\ rewards = << >>
    /\ opt_steps = 0
    /\ env_resets = 0
    /\ ppc = "start"

\* agent = TD_Zero_Agent_Baird_Counterexample(alpha, args, nb_runs=n)
NewAgent(n) ==
    /\ bpc \in {"start", "done"}
    /\ calls < MaxCalls
    /\ n * args_steps <= MaxWork
    /\ nb_runs' = n
    /\ ws' = InitialWs(n, args_steps)
    /\ current_state' = None
    /\ new_state' = None
    /\ run_id' = 0
    /\ step' = 0
    /\ bpc' = "train"
    /\ calls' = calls + 1
    /\ UNCHANGED <<seed_count, rng_seed, seeds, args_steps>>
    /\ UNCHANGED <<rerunVars, q2Vars>>

\* train_all_runs, one iteration of its loop up to the call of
\* semi_gradient_one_run
TrainRunStart(s0) ==
    /\ bpc = "train"
    /\ run_id < nb_runs
    /\ rng_seed' = seed_count
    /\ seeds' = Append(seeds, seed_count)
    /\ seed_count' = NextSeedCount(seed_count)
    /\ current_state' = s0
    /\ step' = 1
    /\ bpc' = "run"
    /\ UNCHANGED <<args_steps, nb_runs, ws, new_state, run_id, calls>>
    /\ UNCHANGED <<rerunVars, q2Vars>>

\* semi_gradient_one_step(run_id, step)
SemiGradientOneStep(s2) ==
    /\ bpc = "run"
    /\ step <= args_steps
    /\ ws[run_id + 1][step].den <= MaxDen
    /\ new_state' = s2
    /\ ws' = [ws EXCEPT ![run_id + 1][step + 1] =
                 StepSnapshot(ws[run_id + 1][step], current_state, s2)]
    /\ current_state' = s2
    /\ step' = step + 1
    /\ UNCHANGED <<seed_count, rng_seed, seeds, args_steps, nb_runs, run_id,
                   bpc, calls>>
    /\ UNCHANGED <<rerunVars, q2Vars>>

\* semi_gradient_one_run returns: the next iteration of train_all_runs
RunEnd ==
    /\ bpc = "run"
    /\ step > args_steps
    /\ run_id' = run_id + 1
    /\ bpc' = "train"
    /\ UNCHANGED <<seed_count, rng_seed, seeds, args_steps, nb_runs, ws,
                   current_state, new_state, step, calls>>
    /\ UNCHANGED <<rerunVars, q2Vars>>

\* train_all_runs returns
TrainReturn ==
    /\ bpc = "train"
    /\ run_id = nb_runs
    /\ bpc' = "done"
    /\ UNCHANGED <<seed_count, rng_seed, seeds, args_steps, nb_runs, ws,
                   current_state, new_state, run_id, step, calls>>
    /\ UNCHANGED <<rerunVars, q2Vars>>

NextBaird ==
    \/ \E n \in 1 .. MaxWork : NewAgent(n)
    \/ \E s0 \in States : TrainRunStart(s0)
    \/ \E s2 \in States : SemiGradientOneStep(s2)
    \/ RunEnd
    \/ TrainReturn

(***************************************************************************)
(* The Baird study run again: np.random as a seeded generator              *)
(***************************************************************************)
\* np.random.seed(c): the generator restarts the stream of seed c
ReseedKeepsPosition(c) == [seed |-> c, pos |-> rng_pos]

Reseed(c) == [seed |-> c, pos |-> 0]

\* np.random.choice(7) returns s: the draw number pos of the stream of a seed
\* is the same value whenever it is made
Draws(key, s) == key \in DOMAIN rng_stream => s = rng_stream[key]

Observed(key, s) ==
    IF key \in DOMAIN rng_stream THEN rng_stream ELSE (key :> s) @@ rng_stream

\* the draws the re-run study is followed for: two of the states 0..5, which
\* give ratio 0 as the target of a step, and state 6
DrawChoices == {s \in States : s = 0 \/ s >= NStates - 2}

\* the module is loaded (seed_count = 16) and main has parsed args.steps
InitRerun ==
    /\ seed_count = SEED0
    /\ rng_seed = None
    /\ seeds = << >>
    /\ args_steps \in 0 .. MaxWork
    /\ nb_runs = 0
    /\ ws = << >>
    /\ current_state = None
    /\ new_state = None
    /\ run_id = 0
    /\ step = 0
    /\ bpc = "start"
    /\ calls = 0
    /\ rng_pos = 0
    /\ rng_stream = << >>
    /\ s0s = << >>
    /\ prev = NoStudy
    \* HW03Q02 is not running
    /\ args_gamma = <<9, 10>>
    /\ dr_rewards = << >>
    /\ dr_returns = None
    /\ dr_pc = "rest"
    /\ agent = "rf"
    /\ sizes = << >>
    /\ alphas = << >>
    /\ args_runs = 0
    /\ args_episodes = 0
    /\ args_max_steps = 0
    /\ size_idx = 0
    /\ alpha_idx = 0
    /\ run = 0
    /\ steps_tensor = << >>
    /\ scores = << >>
    /\ episode = 0
    /\ steps = 0
    /\ done = FALSE
    /\ actions = << >>
    /\ rewards = << >>
    /\ opt_steps = 0
    /\ env_resets = 0
    /\ ppc = "start"
    /\ ld_abs = FALSE
    /\ ld_exists = {}
    /\ ld_path = 0
    /\ ld_depth = 0
    /\ ld_tries = 0
    /\ ld_pc = "rest"

\* the program is started again with the same args.steps: the module global
\* seed_count is 16 again, and an agent of n runs is constructed; the result
\* of the study that has just finished is kept for comparison
StartStudy(n) ==
    /\ bpc \in {"start", "done"}
    /\ calls < MaxCalls
    /\ n * args_steps <= MaxWork
    /\ prev' = IF bpc = "done"
               THEN [nb_runs |-> nb_runs, s0s |-> s0s, ws |-> ws]
               ELSE prev
    /\ seed_count' = SEED0
    /\ rng_seed' = None
    /\ rng_pos' = 0
    /\ seeds' = << >>
    /\ s0s' = << >>
    /\ nb_runs' = n
    /\ ws' = InitialWs(n, args_steps)
    /\ current_state' = None
    /\ new_state' = None
    /\ run_id' = 0
    /\ step' = 0
    /\ bpc' = "train"
    /\ calls' = calls + 1
    /\ UNCHANGED <<args_steps, rng_stream>>
    /\ UNCHANGED q2Vars

\* train_all_runs, one iteration of its loop up to the call of
\* semi_gradient_one_run, the initial state being the first draw after
\* np.random.seed(seed_count)
SeededTrainRunStart(s0) ==
    /\ bpc = "train"
    /\ run_id < nb_runs
    /\ LET g == Reseed(seed_count)
           key == <<g.seed, g.pos>>
       IN  /\ Draws(key, s0)
           /\ rng_stream' = Observed(key, s0)
           /\ rng_seed' = g.seed
           /\ rng_pos' = g.pos + 1
    /\ seeds' = Append(seeds, seed_count)
    /\ seed_count' = NextSeedCount(seed_count)
    /\ current_state' = s0
    /\ s0s' = Append(s0s, s0)
    /\ step' = 1
    /\ bpc' = "run"
    /\ UNCHANGED <<args_steps, nb_runs, ws, new_state, run_id, calls, prev>>
    /\ UNCHANGED q2Vars

\* semi_gradient_one_step(run_id, step), new_state being the next draw
SeededSemiGradientOneStep(s2) ==
    /\ bpc = "run"
    /\ step <= args_steps
    /\ ws[run_id + 1][step].den <= MaxDen
    /\ Draws(<<rng_seed, rng_pos>>, s2)
    /\ rng_stream' = Observed(<<rng_seed, rng_pos>>, s2)
    /\ rng_pos' = rng_pos + 1
    /\ new_state' = s2
    /\ ws' = [ws EXCEPT ![run_id + 1][step + 1] =
                 StepSnapshot(ws[run_id + 1][step], current_state, s2)]
    /\ current_state' = s2
    /\ step' = step + 1
    /\ UNCHANGED <<seed_count, rng_seed, seeds, args_steps, nb_runs, run_id,
                   bpc, calls, s0s, prev>>
    /\ UNCHANGED q2Vars

NextRerun ==
    \/ \E n \in 1 .. MaxWork : StartStudy(n)
    \/ \E s0 \in DrawChoices : SeededTrainRunStart(s0)
    \/ \E s2 \in DrawChoices : SeededSemiGradientOneStep(s2)
    \/ RunEnd
    \/ TrainReturn

(***************************************************************************)
(* Program constants and bounds of HW03Q02.py                              *)
(***************************************************************************)
\* an episode of the model has at most MaxEnvSteps environment steps
MaxEnvSteps == 3
\* args.episodes is at most MaxEpisodes
MaxEpisodes == 2
\* discount_rewards is applied to sequences of at most MaxLen rewards
MaxLen == 3

\* np.empty: a cell of the array that was never assigned
Empty == "empty"

\* discount factors given to discount_rewards
GammaChoices == {<<0, 1>>, <<1, 2>>, <<9, 10>>, <<1, 1>>, <<11, 10>>}

\* args.gamma of a policy-gradient study: GAMMA = 0.9, and an invalid 1.1
StudyGammas == {<<9, 10>>, <<11, 10>>}

\* rewards an environment returns
RewardChoices == {0, 1}

\* the grids of a study: hidden sizes, learning rates (ALPHAS = [0.01, 0.001,
\* 0.0001] is <<100, 10, 1>>), and runs per grid point
Grids ==
    { [sizes |-> <<32>>,     alphas |-> <<100>>,     runs |-> 1],
      [sizes |-> <<32>>,     alphas |-> <<100>>,     runs |-> 2],
      [sizes |-> <<32>>,     alphas |-> <<100, 10>>, runs |-> 1],
      [sizes |-> <<32, 64>>, alphas |-> <<100>>,     runs |-> 1],
      [sizes |-> <<32>>,     alphas |-> <<100, 0>>,  runs |-> 1],
      [sizes |-> <<32>>,     alphas |-> <<0, 100>>,  runs |-> 1] }

(***************************************************************************)
(* discount_rewards                                                        *)
(***************************************************************************)
RatNorm(n, d) == LET g == GCD(n, d) IN <<n \div g, d \div g>>

RatAdd(a, b) == RatNorm(a[1] * b[2] + b[1] * a[2], a[2] * b[2])

RatMul(a, b) == RatNorm(a[1] * b[1], a[2] * b[2])

\* returns.insert(0, R)
InsertBack(returns, R) == Append(returns, R)

InsertFront(returns, R) == <<R>> \o returns

\* the loop over rewards[::-1]: k is the position of r in rewards
RECURSIVE DiscountFrom(_, _, _, _)
DiscountFrom(rs, k, R, returns) ==
    IF k = 0 THEN returns
    ELSE LET R2 == RatAdd(<<rs[k], 1>>, RatMul(args_gamma, R))
         IN  DiscountFrom(rs, k - 1, R2, InsertFront(returns, R2))

discount_rewards(rs) == DiscountFrom(rs, Len(rs), <<0, 1>>, << >>)

RECURSIVE SeqsUpTo(_, _)
SeqsUpTo(S, n) ==
    IF n = 0 THEN {<< >>}
    ELSE LET shorter == SeqsUpTo(S, n - 1)
         IN  shorter \cup {Append(q, x) : q \in shorter, x \in S}

\* the inputs of discount_rewards: a discount factor and a reward sequence
InitDiscount ==
    /\ args_gamma \in GammaChoices
    /\ dr_rewards \in SeqsUpTo({0, 1, 2}, MaxLen)
    /\ dr_returns = None
    /\ dr_pc = "call"
    \* neither program is running
    /\ seed_count = SEED0
    /\ rng_seed = None
    /\ seeds = << >>
    /\ args_steps = 0
    /\ nb_runs = 0
    /\ ws = << >>
    /\ current_state = None
    /\ new_state = None
    /\ run_id = 0
    /\ step = 0
    /\ bpc = "start"
    /\ calls = 0
    /\ rng_pos = 0
    /\ rng_stream = << >>
    /\ s0s = << >>
    /\ prev = NoStudy
    /\ ld_abs = FALSE
    /\ ld_exists = {}
    /\ ld_path = 0
    /\ ld_depth = 0
    /\ ld_tries = 0
    /\ ld_pc = "rest"
    /\ agent = "rf"
    /\ sizes = << >>
    /\ alphas = << >>
    /\ args_runs = 0
    /\ args_episodes = 0
    /\ args_max_steps = 0
    /\ size_idx = 0
    /\ alpha_idx = 0
    /\ run = 0
    /\ steps_tensor = << >>
    /\ scores = << >>
    /\ episode = 0
    /\ steps = 0
    /\ done = FALSE
    /\ actions = << >>
    /\ rewards = << >>
    /\ opt_steps = 0
    /\ env_resets = 0
    /\ ppc = "start"

\* returns = discount_rewards(self.rewards)
CallDiscountRewards ==
    /\ dr_pc = "call"
    /\ dr_returns' = discount_rewards(dr_rewards)
    /\ dr_pc' = "returned"
    /\ UNCHANGED <<args_gamma, dr_rewards, bairdVars, pgVars, loadVars>>

NextDiscount == CallDiscountRewards

(***************************************************************************)
(* Policy, one_run and runs                                                *)
(***************************************************************************)
Cells == (0 .. (Len(sizes) - 1)) \X (0 .. (Len(alphas) - 1)) \X (0 .. (args_runs - 1))

CurrentCell == <<size_idx, alpha_idx, run>>

\* assert 0 <= gamma <= 1
GammaValid == 0 <= args_gamma[1] /\ args_gamma[1] <= args_gamma[2]

\* assert alpha > 0
AlphaValid(alpha) == alpha > 0

\* main: runs(agent, args.hidden_size, alphas) has allocated steps = np.empty(...)
InitStudy ==
    /\ args_gamma \in StudyGammas
    /\ agent \in {"rf", "ac"}
    /\ \E g \in Grids : sizes = g.sizes /\ alphas = g.alphas /\ args_runs = g.runs
    /\ args_episodes \in 1 .. MaxEpisodes
    /\ args_max_steps \in 1 .. MaxEnvSteps
    /\ size_idx = 0
    /\ alpha_idx = 0
    /\ run = 0
    /\ steps_tensor = [c \in Cells |-> Empty]
    /\ scores = << >>
    /\ episode = 0
    /\ steps = 0
    /\ done = FALSE
    /\ actions = << >>
    /\ rewards = << >>
    /\ opt_steps = 0
    /\ env_resets = 0
    /\ ppc = "runs_loop"
    \* HW03Q01 is not running, discount_rewards is not being called
    /\ seed_count = SEED0
    /\ rng_seed = None
    /\ seeds = << >>
    /\ args_steps = 0
    /\ nb_runs = 0
    /\ ws = << >>
    /\ current_state = None
    /\ new_state = None
    /\ run_id = 0
    /\ step = 0
    /\ bpc = "start"
    /\ calls = 0
    /\ rng_pos = 0
    /\ rng_stream = << >>
    /\ s0s = << >>
    /\ prev = NoStudy
    /\ ld_abs = FALSE
    /\ ld_exists = {}
    /\ ld_path = 0
    /\ ld_depth = 0
    /\ ld_tries = 0
    /\ ld_pc = "rest"
    /\ dr_rewards = << >>
    /\ dr_returns = None
    /\ dr_pc = "rest"

configVars == <<args_gamma, agent, sizes, alphas, args_runs, args_episodes,
                args_max_steps>>

\* runs: the body of the innermost loop up to the call of one_run
RunsIterate ==
    /\ ppc = "runs_loop"
    /\ size_idx < Len(sizes)
    /\ ppc' = "one_run"
    /\ UNCHANGED <<configVars, size_idx, alpha_idx, run, steps_tensor, scores,
                   episode, steps, done, actions, rewards, opt_steps, env_resets>>
    /\ UNCHANGED <<bairdVars, drVars, loadVars>>

\* runs: return steps
RunsReturn ==
    /\ ppc = "runs_loop"
    /\ size_idx = Len(sizes)
    /\ ppc' = "returned"
    /\ UNCHANGED <<configVars, size_idx, alpha_idx, run, steps_tensor, scores,
                   episode, steps, done, actions, rewards, opt_steps, env_resets>>
    /\ UNCHANGED <<bairdVars, drVars, loadVars>>

\* one_run up to its episode loop: the two asserts, gym.make, Policy(...)
OneRunSetup ==
    /\ ppc = "one_run"
    /\ IF GammaValid /\ AlphaValid(alphas[alpha_idx + 1])
       THEN /\ scores' = << >>
            /\ actions' = << >>
            /\ rewards' = << >>
            /\ opt_steps' = 0
            /\ episode' = 0
            /\ ppc' = "episode"
       ELSE /\ ppc' = "assertion_error"
            /\ UNCHANGED <<scores, actions, rewards, opt_steps, episode>>
    /\ UNCHANGED <<configVars, size_idx, alpha_idx, run, steps_tensor, steps,
                   done, env_resets>>
    /\ UNCHANGED <<bairdVars, drVars, loadVars>>

\* one_run: state = env.reset(); steps = 0; done = False
EpisodeReset ==
    /\ ppc = "episode"
    /\ episode < args_episodes
    /\ env_resets' = env_resets + 1
    /\ steps' = 0
    /\ done' = FALSE
    /\ ppc' = "while"
    /\ UNCHANGED <<configVars, size_idx, alpha_idx, run, steps_tensor, scores,
                   episode, actions, rewards, opt_steps>>
    /\ UNCHANGED <<bairdVars, drVars, loadVars>>

\* env.reset() raises: one_run and runs have no handler, the error leaves them
EnvResetRaises ==
    /\ ppc = "episode"
    /\ episode < args_episodes
    /\ env_resets' = env_resets + 1
    /\ ppc' = "env_error"
    /\ UNCHANGED <<configVars, size_idx, alpha_idx, run, steps_tensor, scores,
                   episode, steps, done, actions, rewards, opt_steps>>
    /\ UNCHANGED <<bairdVars, drVars, loadVars>>

\* Policy.choose_action: self.actions.append([distr.log_prob(action), value]);
\* the entry is named by the episode and step it was sampled in
ChooseActionTwice == Append(Append(actions, <<episode, steps>>), <<episode, steps>>)

ChooseAction == Append(actions, <<episode, steps>>)

\* one_run: one iteration of "while not done"
EpisodeStep(reward, d) ==
    /\ ppc = "while"
    /\ ~done
    /\ steps < MaxEnvSteps
    /\ actions' = ChooseAction
    /\ rewards' = Append(rewards, reward)
    /\ steps' = steps + 1
    /\ done' = d
    /\ UNCHANGED <<configVars, size_idx, alpha_idx, run, steps_tensor, scores,
                   episode, opt_steps, env_resets, ppc>>
    /\ UNCHANGED <<bairdVars, drVars, loadVars>>

\* the same iteration when env.step(action) raises
EnvStepRaisesThenUpdates ==
    /\ ppc = "while"
    /\ ~done
    /\ steps < MaxEnvSteps
    /\ actions' = << >>
    /\ rewards' = << >>
    /\ opt_steps' = opt_steps + 1
    /\ ppc' = "env_error"
    /\ UNCHANGED <<configVars, size_idx, alpha_idx, run, steps_tensor, scores,
                   episode, steps, done, env_resets>>
    /\ UNCHANGED <<bairdVars, drVars, loadVars>>

EnvStepRaises ==
    /\ ppc = "while"
    /\ ~done
    /\ steps < MaxEnvSteps
    /\ actions' = ChooseAction
    /\ ppc' = "env_error"
    /\ UNCHANGED <<configVars, size_idx, alpha_idx, run, steps_tensor, scores,
                   episode, steps, done, rewards, opt_steps, env_resets>>
    /\ UNCHANGED <<bairdVars, drVars, loadVars>>

\* one_run: the loop has ended; scores.append(steps)
EpisodeRecord ==
    /\ ppc = "while"
    /\ done
    /\ scores' = Append(scores, steps)
    /\ ppc' = "update"
    /\ UNCHANGED <<configVars, size_idx, alpha_idx, run, steps_tensor, episode,
                   steps, done, actions, rewards, opt_steps, env_resets>>
    /\ UNCHANGED <<bairdVars, drVars, loadVars>>

\* model.backprop() for agent 'rf', then the next iteration of the episode loop
Backprop_rf_SkipsShort ==
    /\ ppc = "update"
    /\ agent = "rf"
    /\ opt_steps' = IF Len(rewards) < 2 THEN opt_steps ELSE opt_steps + 1
    /\ rewards' = << >>
    /\ actions' = << >>
    /\ episode' = episode + 1
    /\ ppc' = "episode"
    /\ UNCHANGED <<configVars, size_idx, alpha_idx, run, steps_tensor, scores,
                   steps, done, env_resets>>
    /\ UNCHANGED <<bairdVars, drVars, loadVars>>

Backprop_rf ==
    /\ ppc = "update"
    /\ agent = "rf"
    /\ opt_steps' = opt_steps + 1
    /\ rewards' = << >>
    /\ actions' = << >>
    /\ episode' = episode + 1
    /\ ppc' = "episode"
    /\ UNCHANGED <<configVars, size_idx, alpha_idx, run, steps_tensor, scores,
                   steps, done, env_resets>>
    /\ UNCHANGED <<bairdVars, drVars, loadVars>>

\* model.backprop() for agent 'ac', then the next iteration of the episode loop
Backprop_ac_KeepsActions ==
    /\ ppc = "update"
    /\ agent = "ac"
    /\ opt_steps' = opt_steps + 1
    /\ rewards' = << >>
    /\ episode' = episode + 1
    /\ ppc' = "episode"
    /\ UNCHANGED <<configVars, size_idx, alpha_idx, run, steps_tensor, scores,
                   steps, done, actions, env_resets>>
    /\ UNCHANGED <<bairdVars, drVars, loadVars>>

Backprop_ac ==
    /\ ppc = "update"
    /\ agent = "ac"
    /\ opt_steps' = opt_steps + 1
    /\ rewards' = << >>
    /\ actions' = << >>
    /\ episode' = episode + 1
    /\ ppc' = "episode"
    /\ UNCHANGED <<configVars, size_idx, alpha_idx, run, steps_tensor, scores,
                   steps, done, env_resets>>
    /\ UNCHANGED <<bairdVars, drVars, loadVars>>

\* one_run returns scores; runs stores them in steps[size_idx, alpha_idx, run, :]
\* and goes to the next run of the grid
OneRunReturn ==
    /\ ppc = "episode"
    /\ episode = args_episodes
    /\ steps_tensor' = [steps_tensor EXCEPT ![CurrentCell] = scores]
    /\ IF run + 1 < args_runs
       THEN run' = run + 1 /\ UNCHANGED <<alpha_idx, size_idx>>
       ELSE IF alpha_idx + 1 < Len(alphas)
       THEN run' = 0 /\ alpha_idx' = alpha_idx + 1 /\ UNCHANGED size_idx
       ELSE run' = 0 /\ alpha_idx' = 0 /\ size_idx' = size_idx + 1
    /\ ppc' = "runs_loop"
    /\ UNCHANGED <<configVars, scores, episode, steps, done, actions, rewards,
                   opt_steps, env_resets>>
    /\ UNCHANGED <<bairdVars, drVars, loadVars>>

NextStudy ==
    \/ RunsIterate
    \/ RunsReturn
    \/ OneRunSetup
    \/ EpisodeReset
    \/ EnvResetRaises
    \/ \E reward \in RewardChoices, d \in BOOLEAN : EpisodeStep(reward, d)
    \/ EnvStepRaises
    \/ EpisodeRecord
    \/ Backprop_rf
    \/ Backprop_ac
    \/ OneRunReturn

(***************************************************************************)
(* load                                                                    *)
(***************************************************************************)
\* the deepest nesting of calls of load the model follows
MaxLoadDepth == 6

\* a relative file name is written as the number of times SAVED_MODELS_FOLDER
\* ('./data/') has been prefixed to the name given to main; an absolute file
\* name is written 0
LoadPaths == 0 .. (MaxLoadDepth - 1)

\* os.path.join(SAVED_MODELS_FOLDER, filename): an absolute filename discards
\* the folder
Join(path) == IF ld_abs THEN path ELSE path + 1

\* main: args.load is not None, steps_rf, steps_ac, args = load(filename)
InitLoad ==
    /\ ld_abs \in BOOLEAN
    /\ ld_exists \in SUBSET LoadPaths
    /\ ld_abs => ld_exists \subseteq {0}
    /\ ld_path = 0
    /\ ld_depth = 1
    /\ ld_tries = 0
    /\ ld_pc = "open"
    \* HW03Q01 is not running, no run of the study is made
    /\ seed_count = SEED0
    /\ rng_seed = None
    /\ seeds = << >>
    /\ args_steps = 0
    /\ nb_runs = 0
    /\ ws = << >>
    /\ current_state = None
    /\ new_state = None
    /\ run_id = 0
    /\ step = 0
    /\ bpc = "start"
    /\ calls = 0
    /\ rng_pos = 0
    /\ rng_stream = << >>
    /\ s0s = << >>
    /\ prev = NoStudy
    /\ args_gamma = <<9, 10>>
    /\ dr_rewards = << >>
    /\ dr_returns = None
    /\ dr_pc = "rest"
    /\ agent = "rf"
    /\ sizes = << >>
    /\ alphas = << >>
    /\ args_runs = 0
    /\ args_episodes = 0
    /\ args_max_steps = 0
    /\ size_idx = 0
    /\ alpha_idx = 0
    /\ run = 0
    /\ steps_tensor = << >>
    /\ scores = << >>
    /\ episode = 0
    /\ steps = 0
    /\ done = FALSE
    /\ actions = << >>
    /\ rewards = << >>
    /\ opt_steps = 0
    /\ env_resets = 0
    /\ ppc = "start"

\* open(filename, 'rb') succeeds: pickle.load, f.close(), and the call returns
\* the bundle, to main or to the except branch of the call that made it
LoadOpenFound ==
    /\ ld_pc = "open"
    /\ ld_path \in ld_exists
    /\ ld_tries' = ld_tries + 1
    /\ ld_depth' = ld_depth - 1
    /\ ld_pc' = IF ld_depth = 1 THEN "returned" ELSE "inner_returned"
    /\ UNCHANGED <<ld_abs, ld_exists, ld_path>>
    /\ UNCHANGED <<args_gamma, drVars, pgVars, bairdVars>>

\* open raises FileNotFoundError: the except branch joins the folder and the
\* file name and calls load(filename) again
LoadOpenMissing ==
    /\ ld_pc = "open"
    /\ ld_path \notin ld_exists
    /\ ld_depth < MaxLoadDepth
    /\ ld_tries' = ld_tries + 1
    /\ ld_path' = Join(ld_path)
    /\ ld_depth' = ld_depth + 1
    /\ UNCHANGED <<ld_abs, ld_exists, ld_pc>>
    /\ UNCHANGED <<args_gamma, drVars, pgVars, bairdVars>>

\* the same at the deepest nesting the model follows: the interpreter gives up
\* (RecursionError, or OSError for a name that has grown too long)
LoadOpenTooDeep ==
    /\ ld_pc = "open"
    /\ ld_path \notin ld_exists
    /\ ld_depth = MaxLoadDepth
    /\ ld_tries' = ld_tries + 1
    /\ ld_pc' = "error"
    /\ UNCHANGED <<ld_abs, ld_exists, ld_path, ld_depth>>
    /\ UNCHANGED <<args_gamma, drVars, pgVars, bairdVars>>

\* the inner call has returned into the except branch: its value is dropped,
\* print('Could not open file ...') and sys.exit()
LoadExit ==
    /\ ld_pc = "inner_returned"
    /\ ld_pc' = "exit"
    /\ ld_depth' = 0
    /\ UNCHANGED <<ld_abs, ld_exists, ld_path, ld_tries>>
    /\ UNCHANGED <<args_gamma, drVars, pgVars, bairdVars>>

NextLoad ==
    \/ LoadOpenFound
    \/ LoadOpenMissing
    \/ LoadOpenTooDeep
    \/ LoadExit

(***************************************************************************)
(* Specifications: one per program                                         *)
(***************************************************************************)
SpecBaird == InitBaird /\ [][NextBaird]_vars

SpecDiscount == InitDiscount /\ [][NextDiscount]_vars

SpecStudy == InitStudy /\ [][NextStudy]_vars

SpecLoad == InitLoad /\ [][NextLoad]_vars

SpecRerun == InitRerun /\ [][NextRerun]_vars

(***************************************************************************)
(* Claims about the Baird study                                            *)
(***************************************************************************)
\* a transition that is one call of semi_gradient_one_step
IsOneStep == bpc = "run" /\ step' = step + 1

\* the feature table of Baird's counterexample, written from its structure:
\* states 0..5 have a 2 in their own coordinate and a 1 in the last one,
\* state 6 has a 1 in the seventh coordinate and a 2 in the last one
BairdF(s, i) ==
    IF s < 6 THEN (IF i = s + 1 THEN 2 ELSE IF i = 8 THEN 1 ELSE 0)
    ELSE (IF i = 7 THEN 1 ELSE IF i = 8 THEN 2 ELSE 0)

\* F[s] . v on numerators, from the same structure
BairdValue(v, s) == IF s < 6 THEN 2 * v[s + 1] + v[8] ELSE v[7] + 2 * v[8]

\* C1: in semi_gradient_one_step, when the sampled next state is not state 6
\* the snapshot written for this step equals the previous step's snapshot in
\* all 8 coordinates, and current_state is nevertheless set to the sampled
\* state.
C1_NoOpOnZeroRatio ==
    [][(IsOneStep /\ new_state' # 6) =>
          /\ \A i \in Coords :
                /\ ws'[run_id + 1][step + 1].num[i] = ws[run_id + 1][step].num[i]
                /\ ws'[run_id + 1][step + 1].den = ws[run_id + 1][step].den
          /\ current_state' = new_state'
          /\ new_state' \in States]_vars

\* a second step was taken into a state other than 6 from a snapshot that an
\* earlier update had already moved away from the initial weights
C1_Witness ==
    /\ bpc = "run"
    /\ step = 3
    /\ new_state \in 0 .. 5
    /\ current_state = new_state
    /\ ws[run_id + 1][2] # InitialW
    /\ ws[run_id + 1][3] = ws[run_id + 1][2]

\* C2: in semi_gradient_one_step the new snapshot equals
\* w + alpha * ratio * delta * F[s], with delta = gamma * (F[s'] . w) - (F[s] . w)
\* computed from the previous snapshot (no reward term) and ratio = 7 when s'
\* is state 6 and 0 otherwise.  With w = wn/wd and the new snapshot n = nn/nd,
\* and k = wd * AlphaDen * GammaDen / nd, this is
\*   nn[i] * k = wn[i] * AlphaDen * GammaDen
\*               + AlphaNum * ratio * (GammaNum * F[s'].wn - GammaDen * F[s].wn) * F[s][i]
C2_UpdateRule ==
    [][IsOneStep =>
          LET w  == ws[run_id + 1][step]
              n  == ws'[run_id + 1][step + 1]
              s  == current_state
              s2 == new_state'
              r  == IF s2 = 6 THEN 7 ELSE 0
              D  == AlphaDen * GammaDen
              k  == (w.den * D) \div n.den
              dn == GammaNum * BairdValue(w.num, s2) - GammaDen * BairdValue(w.num, s)
          IN  /\ n.den * k = w.den * D
              /\ \A i \in Coords :
                    n.num[i] * k = w.num[i] * D + AlphaNum * r * dn * BairdF(s, i)]_vars

\* two updating steps in a row: the second one starts from weights that are
\* no longer integers
C2_Witness ==
    /\ bpc = "run"
    /\ step = 3
    /\ new_state = 6
    /\ ws[run_id + 1][2] # InitialW
    /\ ws[run_id + 1][3] # ws[run_id + 1][2]
    /\ ws[run_id + 1][2].den > 1
    /\ ws[run_id + 1][3].den > ws[run_id + 1][2].den

\* C10: the seed counter is read and then incremented by exactly one for each
\* run of train_all_runs and is never decreased or reset, so over all
\* train_all_runs invocations of the process the seeds are strictly
\* increasing in launch order (no two runs share a seed).
C10_SeedsStrictlyIncreasing ==
    /\ seed_count = SEED0 + Len(seeds)
    /\ \A i \in DOMAIN seeds : seeds[i] = SEED0 + i - 1
    /\ \A i, j \in DOMAIN seeds : i < j => seeds[i] < seeds[j]
    /\ \A i \in DOMAIN seeds : seeds[i] < seed_count

\* a second agent has launched a run after a first agent launched two
C10_Witness ==
    /\ calls = 2
    /\ bpc = "run"
    /\ nb_runs >= 2
    /\ run_id = 1
    /\ Len(seeds) >= 4
    /\ rng_seed = seeds[Len(seeds)]


(***************************************************************************)
(* Claims about discount_rewards                                           *)
(***************************************************************************)
\* C3: discount_rewards(rewards) returns a sequence of the same length in
\* forward order whose last element is the last reward and whose element t
\* is r_t + gamma * (element t+1); the empty input gives the empty sequence;
\* rewards [1,1,1] with gamma 0.5 give [1.75, 1.5, 1.0].
C3_DiscountedReturns ==
    dr_pc = "returned" =>
        LET n  == Len(dr_rewards)
            gn == args_gamma[1]
            gd == args_gamma[2]
        IN  /\ Len(dr_returns) = n
            /\ n = 0 => dr_returns = << >>
            /\ n > 0 => dr_returns[n] = <<dr_rewards[n], 1>>
            /\ \A t \in 1 .. (n - 1) :
                  LET a == dr_returns[t]
                      b == dr_returns[t + 1]
                  IN  /\ a[2] > 0
                      /\ a[1] * (gd * b[2]) = a[2] * (dr_rewards[t] * gd * b[2] + gn * b[1])
            /\ (args_gamma = <<1, 2>> /\ dr_rewards = <<1, 1, 1>>)
                  => dr_returns = << <<7, 4>>, <<3, 2>>, <<1, 1>> >>

\* the documented example has been computed
C3_Witness ==
    /\ dr_pc = "returned"
    /\ args_gamma = <<1, 2>>
    /\ dr_rewards = <<1, 1, 1>>
    /\ dr_returns = << <<7, 4>>, <<3, 2>>, <<1, 1>> >>

(***************************************************************************)
(* Claims about the policy-gradient study                                  *)
(***************************************************************************)
\* C4: every episode of one_run ends as soon as the environment signals done
\* or the step counter reaches args.max_steps, whichever comes first, so every
\* recorded per-episode step count lies in [1, max_steps].
C4_StepCapRespected ==
    \A i \in DOMAIN scores : 1 <= scores[i] /\ scores[i] <= args_max_steps

\* C5: after backprop_rf or backprop_ac returns, actions and rewards of the
\* Policy are both empty; hence every episode starts with both empty.
C5_BuffersEmptyAfterUpdate ==
    /\ ppc = "episode" => (actions = << >> /\ rewards = << >>)
    /\ (ppc = "while" /\ steps = 0) => (actions = << >> /\ rewards = << >>)

\* actor-critic: the update after a two-step second episode has returned
C5_Witness ==
    /\ ppc = "episode"
    /\ agent = "ac"
    /\ episode = 2
    /\ scores[2] = 2
    /\ actions = << >>
    /\ rewards = << >>

C7_NoUpdateOnEnvError ==
    ppc = "env_error" =>
        /\ opt_steps = episode
        /\ Len(scores) = episode
        /\ steps_tensor[CurrentCell] = Empty

\* env.step raised in the second step of the second episode
C7_Witness ==
    /\ ppc = "env_error"
    /\ episode = 1
    /\ opt_steps = 1
    /\ Len(actions) = 2
    /\ Len(rewards) = 1

\* C8: when the environment fails during one run, runs() aborts only that
\* run: every other run of the grid is still executed and recorded.  The error
\* position is final, so the claim says that there every other cell is set.
C8_OtherRunsStillRecorded ==
    ppc = "env_error" =>
        \A c \in Cells \ {CurrentCell} : steps_tensor[c] # Empty

\* C9: an invalid gamma or learning rate is detected before any run starts:
\* when the assertion fails no run has executed any episode, whatever the
\* position of the invalid learning rate.
C9_NoEpisodeBeforeConfigError ==
    ppc = "assertion_error" =>
        /\ env_resets = 0
        /\ \A c \in Cells : steps_tensor[c] = Empty


\* C13: during every episode of one_run choose_action is called exactly once
\* per environment step, so after each completed step actions and rewards have
\* the same length, equal to the step counter; when the updater is invoked
\* both hold exactly one entry per step of that episode and none from an
\* earlier episode.
C13_BuffersAlignedWithSteps ==
    ppc \in {"while", "update"} =>
        /\ Len(actions) = steps
        /\ Len(rewards) = steps
        /\ \A i \in DOMAIN actions : actions[i] = <<episode, i - 1>>
        /\ ppc = "update" => (steps >= 1 /\ scores[Len(scores)] = steps)

\* the updater is about to be invoked for a second episode of three steps
C13_Witness ==
    /\ ppc = "update"
    /\ episode = 1
    /\ steps = 3
    /\ Len(actions) = 3
    /\ Len(rewards) = 3
    /\ actions[1] = <<1, 0>>

(***************************************************************************)
(* Claims about load                                                       *)
(***************************************************************************)
\* the file is at the path given to main
FileAtGivenPath == 0 \in ld_exists

\* the file is at the same name inside SAVED_MODELS_FOLDER
FileInDataFolder == Join(0) \in ld_exists

\* C14: load(filename) is a two-step lookup that is not retried: it tries the
\* given path, then at most once the same name inside the fallback data
\* folder, and then terminates, returning the deserialized bundle if either
\* location holds the file and failing fatally if neither does.
C14_TwoStepLookup ==
    /\ ld_tries <= 2
    /\ ld_pc = "returned" => (FileAtGivenPath \/ FileInDataFolder)
    /\ ld_pc \in {"exit", "error"} => ~(FileAtGivenPath \/ FileInDataFolder)

(***************************************************************************)
(* Claims about the Baird study run again                                  *)
(***************************************************************************)
\* the number of steps run i of the agent has completed
StepsDone(i) ==
    IF i < run_id THEN args_steps
    ELSE IF i = run_id /\ bpc = "run" THEN step - 1
    ELSE 0

\* run i of the agent has been launched
Launched(i) == i < run_id \/ (i = run_id /\ bpc = "run")

\* the snapshot after j steps as a function of the stream of one seed alone
RECURSIVE SnapshotOfSeed(_, _)
SnapshotOfSeed(sd, j) ==
    IF j = 0 THEN InitialW
    ELSE StepSnapshot(SnapshotOfSeed(sd, j - 1),
                      rng_stream[<<sd, j - 1>>], rng_stream[<<sd, j>>])

\* C11: for the Baird study started from the same seed-counter value with the
\* same steps, alpha and gamma, the result of run i (its initial state and
\* its whole weight-snapshot series) is the same whether k or k' >= k runs
\* are requested, for every i < k: as far as run i has got, its initial state
\* and snapshots are those of the previous study's run i, and they are
\* determined by the stream of the seed start+i alone.
C11_RunDependsOnlyOnItsSeed ==
    \A i \in 0 .. (nb_runs - 1) :
        Launched(i) =>
            /\ \A p \in 0 .. StepsDone(i) : <<SEED0 + i, p>> \in DOMAIN rng_stream
            /\ s0s[i + 1] = rng_stream[<<SEED0 + i, 0>>]
            /\ \A j \in 0 .. StepsDone(i) :
                   ws[i + 1][j + 1] = SnapshotOfSeed(SEED0 + i, j)
            /\ i < prev.nb_runs =>
                   /\ s0s[i + 1] = prev.s0s[i + 1]
                   /\ \A j \in 0 .. StepsDone(i) :
                          ws[i + 1][j + 1] = prev.ws[i + 1][j + 1]

\* a study of two runs has finished after a study of one run, and the run
\* they share has changed the weights
C11_Witness ==
    /\ bpc = "done"
    /\ prev.nb_runs = 1
    /\ nb_runs = 2
    /\ args_steps = 1
    /\ ws[1][2] # InitialW
    /\ ws[1] = prev.ws[1]
    /\ s0s[2] # s0s[1]

=============================================================================
